---------------------------- MODULE Spec2Model ----------------------------
(***************************************************************************)
(* A model of the icu-message-formatter sources:                           *)
(*   src/source/utilities.js        findClosingBracket, split,             *)
(*                                  splitFormattedArgument, constants      *)
(*   src/source/MessageFormatter.js decorateMessageString, decorateValue,  *)
(*                                  extractValues, process, format         *)
(*                                                                         *)
(* A JavaScript string is a sequence of one-character strings, with        *)
(* 0-based indices as in the source (IndexOf, Substring, CharAt).  Other   *)
(* JavaScript values are records tagged with their type.                   *)
(***************************************************************************)
EXTENDS Integers, Sequences, FiniteSets, TLC

VARIABLES
    pc,            \* "ready": arguments chosen, "done": the call has returned
    op,            \* the operation the last call ran
    string,        \* findClosingBracket: its string argument
    fromIndex,     \* findClosingBracket: its fromIndex argument
    closing,       \* findClosingBracket: the returned index
    block,         \* splitFormattedArgument: its block argument
    parts,         \* splitFormattedArgument: the returned array
    typeHandlers,  \* MessageFormatter: this.typeHandlers
    message,       \* process/format: the message argument
    values,        \* process/format: the values argument
    locale,        \* process/format: the locale argument
    outcome,       \* process/format: what the call produced
    cache          \* format: the memoized results, by argument list

vars == <<pc, op, string, fromIndex, closing, block, parts,
          typeHandlers, message, values, locale, outcome, cache>>

-----------------------------------------------------------------------------
(* Bounds of the model *)

MaxStringLen == 6
MaxInteriorLen == 5
MaxMessageLen == 4
MaxSegments == 2

-----------------------------------------------------------------------------
(* JavaScript strings *)

Str(alphabet, n) == UNION {[1..k -> alphabet] : k \in 0..n}

Min(S) == CHOOSE x \in S : \A y \in S : x <= y

\* String.prototype.charAt
CharAt(s, i) == s[i + 1]

\* String.prototype.indexOf(sep): first 0-based index of sep in s, or -1
IndexOf(s, sep) ==
    LET hits == {i \in 0..(Len(s) - Len(sep)) :
                    SubSeq(s, i + 1, i + Len(sep)) = sep}
    IN  IF hits = {} THEN -1 ELSE Min(hits)

\* String.prototype.substring(a, b), with a and b clamped to 0..length
Substring(s, a, b) ==
    LET lo == IF a < 0 THEN 0 ELSE IF a > Len(s) THEN Len(s) ELSE a
        hi == IF b < 0 THEN 0 ELSE IF b > Len(s) THEN Len(s) ELSE b
    IN  IF lo <= hi THEN SubSeq(s, lo + 1, hi) ELSE SubSeq(s, hi + 1, lo)

\* String.prototype.substring(a)
SubstringFrom(s, a) == Substring(s, a, Len(s))

\* String.prototype.slice(1, -1)
SliceInner(s) == SubSeq(s, 2, Len(s) - 1)

IsSpace(c) == c = " "

\* String.prototype.trim
Trim(s) ==
    LET keep == {i \in 1..Len(s) : ~IsSpace(s[i])}
    IN  IF keep = {} THEN <<>>
        ELSE SubSeq(s, Min(keep), CHOOSE i \in keep : \A j \in keep : j <= i)

-----------------------------------------------------------------------------
(* utilities.js *)

SOURCE_MESSAGE == "message"

SOURCE_PLACEHOLDER == "placeholder"

\* the for loop of findClosingBracket, from index i with the given depth
RECURSIVE findClosingBracketLoop(_, _, _)
findClosingBracketLoop(s, i, depth) ==
    IF ~(i < Len(s)) THEN -1
    ELSE IF CharAt(s, i) = "}"
         THEN IF depth = 0 THEN i
              ELSE findClosingBracketLoop(s, i + 1, depth - 1)
         ELSE IF CharAt(s, i) = "{"
              THEN findClosingBracketLoop(s, i + 1, depth + 1)
              ELSE findClosingBracketLoop(s, i + 1, depth)

\* a closing-bracket search that takes the first } whatever the nesting
findClosingBracketFlat(s, from) ==
    LET hits == {i \in (from + 1)..(Len(s) - 1) : CharAt(s, i) = "}"}
    IN  IF hits = {} THEN -1 ELSE Min(hits)

findClosingBracket(s, from) == findClosingBracketLoop(s, from + 1, 0)

\* where the remainder starts once the delimiter is found at indexOfDelimiter
splitTailStart(indexOfDelimiter, separator) ==
    indexOfDelimiter + Len(separator) + 1

RECURSIVE split(_, _, _, _)
split(s, separator, limit, accumulator) ==
    IF s = <<>> THEN accumulator
    ELSE IF limit = 1 THEN Append(accumulator, s)
    ELSE LET indexOfDelimiter == IndexOf(s, separator)
         IN  IF indexOfDelimiter = -1 THEN Append(accumulator, s)
             ELSE LET head == Trim(Substring(s, 0, indexOfDelimiter))
                      tail == Trim(SubstringFrom(s,
                                  splitTailStart(indexOfDelimiter, separator)))
                  IN  split(tail, separator, limit - 1,
                            Append(accumulator, head))

\* the limit splitFormattedArgument passes to split
SplitLimit == 3

\* a splitter that keeps cutting at every delimiter
splitFormattedArgumentUnlimited(b) == split(SliceInner(b), <<",">>, 0, <<>>)

splitFormattedArgument(b) == split(SliceInner(b), <<",">>, SplitLimit, <<>>)

-----------------------------------------------------------------------------
(* JavaScript values: a record tagged with its type.  An object is the map  *)
(* of its own properties; inherited properties are not modelled.            *)

Undefined == [t |-> "undefined", v |-> <<>>]

Null == [t |-> "null", v |-> <<>>]

JSString(s) == [t |-> "string", v |-> s]

JSArray(a) == [t |-> "array", v |-> a]

JSObject(map) == [t |-> "object", v |-> map]

EmptyObject == JSObject([k \in {} |-> Undefined])

\* !x for the values a message can be: undefined, null or a string
Falsy(x) == x.t \in {"undefined", "null"} \/ (x.t = "string" /\ x.v = <<>>)

\* array[i] of an array of strings, as destructuring reads it
Element(array, i) == IF i < Len(array) THEN JSString(array[i + 1]) ELSE Undefined

\* the property name a value is converted to in object[value]
ToPropertyKey(x) ==
    IF x.t = "undefined" THEN <<"u", "n", "d", "e", "f", "i", "n", "e", "d">>
    ELSE x.v

\* object[key]
Get(object, key) ==
    IF ToPropertyKey(key) \in DOMAIN object.v
    THEN object.v[ToPropertyKey(key)]
    ELSE Undefined

\* how Array.prototype.join renders one element
JoinText(x) == IF x.t \in {"undefined", "null"} THEN <<>> ELSE x.v

\* Array.prototype.join('')
RECURSIVE Join(_)
Join(array) ==
    IF array = <<>> THEN <<>> ELSE JoinText(Head(array)) \o Join(Tail(array))

-----------------------------------------------------------------------------
(* MessageFormatter.js *)

decorateMessageString(s) == [source |-> "message", value |-> JSString(s)]

decorateValue(key, type, value) ==
    [source |-> "value", key |-> key, type |-> type, value |-> value]

RECURSIVE extractValues(_)
extractValues(array) ==
    IF array = <<>> THEN <<>>
    ELSE LET value == Head(array).value
         IN  (IF value.t = "array" THEN extractValues(value.v) ELSE <<value>>)
             \o extractValues(Tail(array))

\* what a call produces: the returned nodes, or the error thrown; calls is
\* the list of type handler invocations the call made, in order
Return(nodes, calls) ==
    [thrown |-> FALSE, error |-> <<>>, nodes |-> nodes, calls |-> calls]

Throw(error, calls) ==
    [thrown |-> TRUE, error |-> error, nodes |-> <<>>, calls |-> calls]

\* values = {} : the default of an omitted argument
DefaultValues(vals) == IF vals.t = "undefined" THEN EmptyObject ELSE vals

\* a lookup that leaves null and undefined as they are
resolveBodyRaw(vals, key) == Get(vals, key)

\* let body = values[key]; if (body === null || body === undefined) body = ''
resolveBody(vals, key) ==
    LET body == Get(vals, key)
    IN  IF body.t \in {"null", "undefined"} THEN JSString(<<>>) ELSE body

NoHandler == "none"

\* a lookup that does not require the type to be registered
selectTypeHandlerAny(type, handlers) ==
    IF type.t = "string" /\ type.v # <<>> THEN "scalar" ELSE NoHandler

\* type && this.typeHandlers[type]
selectTypeHandler(type, handlers) ==
    IF Falsy(type) THEN NoHandler
    ELSE IF type.v \in DOMAIN handlers THEN handlers[type.v] ELSE NoHandler

\* a callback that processes with no handlers registered
unboundProcess(handlers) == [k \in {} |-> NoHandler]

\* this.process.bind(this): the registry the recurse callback processes with
boundProcess(handlers) == handlers

\* a missing else branch: the message is returned as literal text
unbalancedAsLiteral(m) == Return(<<decorateMessageString(m)>>, <<>>)

\* throw new Error(`Unbalanced curly braces in string: "${message}"`)
unbalanced(m) == Throw(m, <<>>)

\* a tail that starts at the closing brace instead of after it
tailFromBlockEnd(m, blockEndIndex) == SubstringFrom(m, blockEndIndex)

\* let tail = message.substring(blockEndIndex + 1)
tailAfterBlock(m, blockEndIndex) == SubstringFrom(m, blockEndIndex + 1)

RECURSIVE process(_, _, _, _)

(* The type handlers a formatter is constructed with.  "scalar" returns a  *)
(* string made of its value, format and locale; "recurse" returns the      *)
(* nodes of recurse(format, values, locale).                               *)
applyTypeHandler(handler, body, fmt, vals, loc, recurse) ==
    LET call == [handler |-> handler, value |-> body, format |-> fmt,
                 values |-> vals, locale |-> loc, recurse |-> recurse]
    IN  IF handler = "recurse"
        THEN LET r == process(fmt, vals, loc, recurse)
             IN  [thrown |-> r.thrown, error |-> r.error,
                  value |-> JSArray(r.nodes), calls |-> <<call>> \o r.calls]
        ELSE [thrown |-> FALSE, error |-> <<>>,
              value |-> JSString(<<"[">> \o JoinText(body) \o <<"|">>
                                 \o JoinText(fmt) \o <<"|">> \o JoinText(loc)
                                 \o <<"]">>),
              calls |-> <<call>>]

process(msg, valuesArg, loc, handlers) ==
    IF Falsy(msg) THEN Return(<<>>, <<>>)
    ELSE
    LET m == msg.v
        vals == DefaultValues(valuesArg)
        blockStartIndex == IndexOf(m, <<"{">>)
        blockEndIndex == findClosingBracket(m, blockStartIndex)
        blk == Substring(m, blockStartIndex, blockEndIndex + 1)
        head == Substring(m, 0, blockStartIndex)
        result0 == IF head # <<>> THEN <<decorateMessageString(head)>> ELSE <<>>
        args == splitFormattedArgument(blk)
        key == Element(args, 0)
        type == Element(args, 1)
        fmt == Element(args, 2)
        body == resolveBody(vals, key)
        typeHandler == selectTypeHandler(type, handlers)
        handled == IF typeHandler # NoHandler
                   THEN applyTypeHandler(typeHandler, body, fmt, vals, loc,
                                         boundProcess(handlers))
                   ELSE [thrown |-> FALSE, error |-> <<>>, value |-> body,
                         calls |-> <<>>]
        result1 == result0 \o <<decorateValue(key, type, handled.value)>>
        tail == tailAfterBlock(m, blockEndIndex)
        rest == process(JSString(tail), vals, loc, handlers)
    IN  IF blockStartIndex # -1 /\ blockEndIndex # -1 /\ blk # <<>>
        THEN IF handled.thrown THEN Throw(handled.error, handled.calls)
             ELSE IF tail # <<>>
                  THEN IF rest.thrown
                       THEN Throw(rest.error, handled.calls \o rest.calls)
                       ELSE Return(result1 \o rest.nodes,
                                   handled.calls \o rest.calls)
                  ELSE Return(result1, handled.calls)
        ELSE IF blockStartIndex # -1 /\ blockEndIndex = -1
             THEN unbalanced(m)
             ELSE Return(<<decorateMessageString(m)>>, <<>>)

\* the function format memoizes, with the locale left out
formatBodyNoLocale(msg, vals, loc, handlers) ==
    LET r == process(msg, vals, Undefined, handlers)
    IN  [thrown |-> r.thrown, error |-> r.error,
         text |-> Join(extractValues(r.nodes))]

\* the function format memoizes
formatBody(msg, vals, loc, handlers) ==
    LET processResult == process(msg, vals, loc, handlers)
        extractedResult == extractValues(processResult.nodes)
    IN  [thrown |-> processResult.thrown, error |-> processResult.error,
         text |-> Join(extractedResult)]

\* memoize: the key a call's arguments are stored under
memoKey(msg, vals, loc) == <<msg, vals, loc>>

-----------------------------------------------------------------------------
(* The arguments the calls are made with *)

BracketAlphabet == {"{", "}", "a"}

InteriorAlphabet == {",", " ", "a", "b"}

MessageAlphabet == {"{", "}", "a", " "}

\* "{k, type, {nested} text}"
NestedExampleBlock ==
    <<"{", "k", ",", " ", "t", "y", "p", "e", ",", " ", "{", "n", "e", "s",
      "t", "e", "d", "}", " ", "t", "e", "x", "t", "}">>

\* "{nested} text"
NestedExampleFormat ==
    <<"{", "n", "e", "s", "t", "e", "d", "}", " ", "t", "e", "x", "t">>

ExampleBlocks ==
    { NestedExampleBlock,
      <<"{", "k", ",", " ", "t", ",", " ", "{", "a", ",", "b", "}", ",", "c", "}">>,
      <<"{", "a", ",", " ", "b", ",", " ", "c", ",", " ", "d", ",", "e", " ", "}">> }

Blocks ==
    {<<"{">> \o i \o <<"}">> : i \in Str(InteriorAlphabet, MaxInteriorLen)}
    \cup ExampleBlocks

\* pieces of message text: literals, stray braces, and placeholder blocks
\* "{a}", "{ b }", "{a, u, b}", "{a, z}", "{b, r, a{a, u}}"
Segments ==
    { <<"a">>, <<" ">>, <<"{">>, <<"}">>,
      <<"{", "a", "}">>,
      <<"{", " ", "b", " ", "}">>,
      <<"{", "a", ",", " ", "u", ",", " ", "b", "}">>,
      <<"{", "a", ",", " ", "z", "}">>,
      <<"{", "b", ",", " ", "r", ",", " ", "a", "{", "a", ",", " ", "u", "}", "}">> }

RECURSIVE Concat(_)
Concat(ss) == IF ss = <<>> THEN <<>> ELSE Head(ss) \o Concat(Tail(ss))

\* "{missing}"
MissingExample == <<"{", "m", "i", "s", "s", "i", "n", "g", "}">>

\* "{greeting}, {name}"
GreetingExample ==
    <<"{", "g", "r", "e", "e", "t", "i", "n", "g", "}", ",", " ",
      "{", "n", "a", "m", "e", "}">>

\* "a{a} {b}a"
SubstitutionExample == <<"a", "{", "a", "}", " ", "{", "b", "}", "a">>

\* "{a, u, b}{a, z}{a}"
DispatchExample ==
    <<"{", "a", ",", " ", "u", ",", " ", "b", "}",
      "{", "a", ",", " ", "z", "}", "{", "a", "}">>

\* "a{b, r, a{a, u}} a"
RecursionExample ==
    <<"a", "{", "b", ",", " ", "r", ",", " ", "a", "{", "a", ",", " ", "u",
      "}", "}", " ", "a">>

ExampleMessages ==
    { MissingExample, GreetingExample, SubstitutionExample, DispatchExample,
      RecursionExample }

MessageTexts ==
    Str(MessageAlphabet, MaxMessageLen)
    \cup {Concat(ss) : ss \in Str(Segments, MaxSegments)}
    \cup ExampleMessages

Messages == {JSString(m) : m \in MessageTexts} \cup {Undefined}

ValueMaps ==
    { Undefined,
      EmptyObject,
      JSObject((<<"a">> :> JSString(<<"x">>)) @@ (<<"b">> :> JSString(<<"y", "z">>))),
      JSObject((<<"a">> :> Null) @@ (<<"b">> :> Undefined)
               @@ (<<" ", "b", " ">> :> JSString(<<"w">>))) }

Locales == {Undefined, JSString(<<"e", "n">>)}

NoHandlers == [k \in {} |-> NoHandler]

HandlerRegistries ==
    { NoHandlers,
      (<<"u">> :> "scalar") @@ (<<"r">> :> "recurse") }

\* the calls made to one formatter whose results are memoized
\* "{a, u}", "a{a}", "{a"
MemoMessages ==
    { JSString(<<"{", "a", ",", " ", "u", "}">>),
      JSString(<<"a", "{", "a", "}">>),
      JSString(<<"{", "a">>) }

MemoValueMaps ==
    { EmptyObject, JSObject(<<"a">> :> JSString(<<"x">>)) }

NoOutcome ==
    [thrown |-> FALSE, error |-> <<>>, nodes |-> <<>>, calls |-> <<>>,
     text |-> <<>>, memoized |-> FALSE]

NoCache == [k \in {} |-> <<>>]

-----------------------------------------------------------------------------
(* Initial states: a formatter is constructed and the arguments chosen *)

InitBracket ==
    /\ pc = "ready"
    /\ op = "none"
    /\ string \in Str(BracketAlphabet, MaxStringLen) \ {<<>>}
    /\ fromIndex \in 0..(Len(string) - 1)
    /\ closing = -1
    /\ block = <<>> /\ parts = <<>>
    /\ typeHandlers = NoHandlers
    /\ message = Undefined /\ values = Undefined /\ locale = Undefined
    /\ outcome = NoOutcome
    /\ cache = NoCache

InitSplit ==
    /\ pc = "ready"
    /\ op = "none"
    /\ string = <<>> /\ fromIndex = 0 /\ closing = -1
    /\ block \in Blocks
    /\ parts = <<>>
    /\ typeHandlers = NoHandlers
    /\ message = Undefined /\ values = Undefined /\ locale = Undefined
    /\ outcome = NoOutcome
    /\ cache = NoCache

Init ==
    /\ pc = "ready"
    /\ op = "none"
    /\ string = <<>> /\ fromIndex = 0 /\ closing = -1
    /\ block = <<>> /\ parts = <<>>
    /\ typeHandlers \in HandlerRegistries
    /\ message \in Messages
    /\ values \in ValueMaps
    /\ locale \in Locales
    /\ outcome = NoOutcome
    /\ cache = NoCache

InitMemo ==
    /\ pc = "done"
    /\ op = "none"
    /\ string = <<>> /\ fromIndex = 0 /\ closing = -1
    /\ block = <<>> /\ parts = <<>>
    /\ typeHandlers = (<<"u">> :> "scalar") @@ (<<"r">> :> "recurse")
    /\ message = Undefined /\ values = Undefined /\ locale = Undefined
    /\ outcome = NoOutcome
    /\ cache = NoCache

-----------------------------------------------------------------------------
(* Actions: one per exported operation *)

CallFindClosingBracket ==
    /\ pc = "ready"
    /\ pc' = "done"
    /\ op' = "findClosingBracket"
    /\ closing' = findClosingBracket(string, fromIndex)
    /\ UNCHANGED <<string, fromIndex, block, parts, typeHandlers, message,
                   values, locale, outcome, cache>>

CallSplitFormattedArgument ==
    /\ pc = "ready"
    /\ pc' = "done"
    /\ op' = "splitFormattedArgument"
    /\ parts' = splitFormattedArgument(block)
    /\ UNCHANGED <<string, fromIndex, closing, block, typeHandlers, message,
                   values, locale, outcome, cache>>

CallProcess ==
    /\ pc = "ready"
    /\ pc' = "done"
    /\ op' = "process"
    /\ outcome' = LET r == process(message, values, locale, typeHandlers)
                  IN  [thrown |-> r.thrown, error |-> r.error,
                       nodes |-> r.nodes, calls |-> r.calls, text |-> <<>>,
                       memoized |-> FALSE]
    /\ UNCHANGED <<string, fromIndex, closing, block, parts, typeHandlers,
                   message, values, locale, cache>>

\* format = memoize(...): a stored result is returned, anything else is
\* computed and, unless it throws, stored
CallFormat ==
    /\ pc = "ready"
    /\ pc' = "done"
    /\ op' = "format"
    /\ LET key == memoKey(message, values, locale)
           r == formatBody(message, values, locale, typeHandlers)
       IN  IF key \in DOMAIN cache
           THEN /\ outcome' = [thrown |-> FALSE, error |-> <<>>,
                               nodes |-> <<>>, calls |-> <<>>,
                               text |-> cache[key], memoized |-> TRUE]
                /\ cache' = cache
           ELSE /\ outcome' = [thrown |-> r.thrown, error |-> r.error,
                               nodes |-> <<>>, calls |-> <<>>,
                               text |-> IF r.thrown THEN <<>> ELSE r.text,
                               memoized |-> FALSE]
                /\ cache' = IF r.thrown THEN cache ELSE cache @@ (key :> r.text)
    /\ UNCHANGED <<string, fromIndex, closing, block, parts, typeHandlers,
                   message, values, locale>>

\* the caller picks the arguments of its next format call
ChooseArguments ==
    /\ pc = "done"
    /\ pc' = "ready"
    /\ message' \in MemoMessages
    /\ values' \in MemoValueMaps
    /\ locale' \in Locales
    /\ UNCHANGED <<op, string, fromIndex, closing, block, parts, typeHandlers,
                   outcome, cache>>

NextBracket == CallFindClosingBracket

NextSplit == CallSplitFormattedArgument

Next == CallProcess \/ CallFormat

NextMemo == ChooseArguments \/ CallFormat

SpecBracket == InitBracket /\ [][NextBracket]_vars

SpecSplit == InitSplit /\ [][NextSplit]_vars

Spec == Init /\ [][Next]_vars

SpecMemo == InitMemo /\ [][NextMemo]_vars

-----------------------------------------------------------------------------
(* Reference definitions the properties are stated with.  Indices are      *)
(* 0-based, as in the source.                                              *)

\* the number of { minus the number of } among the indices a..b of s
Depth(s, a, b) ==
    Cardinality({k \in a..b : CharAt(s, k) = "{"})
    - Cardinality({k \in a..b : CharAt(s, k) = "}"})

\* e holds a } and the braces strictly between o and e are balanced
IsMatchingClose(s, o, e) ==
    /\ o < e /\ e < Len(s)
    /\ CharAt(s, e) = "}"
    /\ \A j \in (o + 1)..(e - 1) : Depth(s, o + 1, j) >= 0
    /\ Depth(s, o + 1, e - 1) = 0

MatchingCloses(s, o) == {e \in 0..(Len(s) - 1) : IsMatchingClose(s, o, e)}

\* some { of s has no matching }
Unmatched(s) ==
    \E o \in 0..(Len(s) - 1) : CharAt(s, o) = "{" /\ MatchingCloses(s, o) = {}

\* every { of s has its } and every } its {
Balanced(s) ==
    /\ \A j \in 0..(Len(s) - 1) : Depth(s, 0, j) >= 0
    /\ Depth(s, 0, Len(s) - 1) = 0

\* the nodes of a result, nested ones included, parents first
RECURSIVE AllNodes(_)
AllNodes(nodes) ==
    IF nodes = <<>> THEN <<>>
    ELSE LET n == Head(nodes)
         IN  <<n>>
             \o (IF n.value.t = "array" THEN AllNodes(n.value.v) ELSE <<>>)
             \o AllNodes(Tail(nodes))

IsPlaceholderNode(n) == "key" \in DOMAIN n

PlaceholderNodes(nodes) == SelectSeq(AllNodes(nodes), IsPlaceholderNode)

\* values[key] with a missing, null or undefined entry read as ''
ResolvedValue(vals, key) ==
    IF key.t = "string" /\ key.v \in DOMAIN vals.v
       /\ vals.v[key.v].t \notin {"null", "undefined"}
    THEN vals.v[key.v]
    ELSE JSString(<<>>)

StringValued(vals) ==
    \A k \in DOMAIN DefaultValues(vals).v :
        DefaultValues(vals).v[k].t = "string"

\* the message with every top-level block replaced by the value of its key
RECURSIVE Substituted(_, _)
Substituted(m, vals) ==
    IF m = <<>> THEN <<>>
    ELSE IF Head(m) = "{" /\ MatchingCloses(m, 0) # {}
    THEN LET e == Min(MatchingCloses(m, 0))
             key == Element(splitFormattedArgument(SubSeq(m, 1, e + 1)), 0)
         IN  ResolvedValue(vals, key).v \o Substituted(SubSeq(m, e + 2, Len(m)), vals)
    ELSE <<Head(m)>> \o Substituted(Tail(m), vals)

\* the text of a sequence of string leaves
LeafText(leaves) == Concat([i \in 1..Len(leaves) |-> leaves[i].v])

\* a type is present and a handler is registered under it
TypeRegistered(type) ==
    type.t = "string" /\ type.v # <<>> /\ type.v \in DOMAIN typeHandlers

\* the placeholder blocks a call processes, those of the sub-messages a
\* recursing handler passes back included, in the order they are processed
RECURSIVE BlocksProcessed(_)
BlocksProcessed(m) ==
    LET o == IndexOf(m, <<"{">>)
    IN  IF o = -1 \/ MatchingCloses(m, o) = {} THEN <<>>
        ELSE LET e == Min(MatchingCloses(m, o))
                 b == SubSeq(m, o + 1, e + 1)
                 type == Element(splitFormattedArgument(b), 1)
                 fmt == Element(splitFormattedArgument(b), 2)
             IN  <<b>>
                 \o (IF TypeRegistered(type) /\ fmt.t = "string"
                        /\ typeHandlers[type.v] = "recurse"
                     THEN BlocksProcessed(fmt.v) ELSE <<>>)
                 \o BlocksProcessed(SubSeq(m, e + 2, Len(m)))

\* the parts obtained by cutting at the first comma, then at the next,
\* each part trimmed
RECURSIVE CutAtCommas(_, _)
CutAtCommas(s, cuts) ==
    IF Trim(s) = <<>> THEN <<>>
    ELSE IF cuts = 0 \/ IndexOf(s, <<",">>) = -1 THEN <<Trim(s)>>
    ELSE <<Trim(SubSeq(s, 1, IndexOf(s, <<",">>)))>>
         \o CutAtCommas(SubSeq(s, IndexOf(s, <<",">>) + 2, Len(s)), cuts - 1)

-----------------------------------------------------------------------------
(* Properties *)

\* C1: a message in which some { has no matching } makes process and format
\* fail with the unbalanced-braces error, which carries the offending text,
\* and no result is returned, partial or otherwise.
UnbalancedBracesThrow ==
    (pc = "done" /\ op \in {"process", "format"} /\ message.t = "string"
        /\ Unmatched(message.v))
    => /\ outcome.thrown
       /\ Unmatched(outcome.error)
       /\ outcome.nodes = <<>>
       /\ outcome.text = <<>>

\* C1 witness: the unmatched { comes after an earlier well-formed block
UnbalancedAfterBlockReached ==
    /\ pc = "done" /\ op = "process" /\ message.t = "string"
    /\ outcome.thrown
    /\ IndexOf(message.v, <<"{">>) # -1
    /\ MatchingCloses(message.v, IndexOf(message.v, <<"{">>)) # {}

SplitCutsAtCommasTrimmed ==
    (pc = "done" /\ op = "splitFormattedArgument")
    => parts = CutAtCommas(SliceInner(block), 2)

NodesTaggedWithExportedConstants ==
    (pc = "done" /\ op = "process")
    => \A i \in 1..Len(AllNodes(outcome.nodes)) :
          LET n == AllNodes(outcome.nodes)[i]
          IN  IF IsPlaceholderNode(n)
              THEN n.source = SOURCE_PLACEHOLDER /\ "type" \in DOMAIN n
              ELSE n.source = SOURCE_MESSAGE

SplitKeepsFormatWhole ==
    (pc = "done" /\ op = "splitFormattedArgument")
    => LET interior == SliceInner(block)
           commas(p) == Cardinality({i \in 1..(p - 1) : interior[i] = ","})
       IN  /\ Len(parts) <= 3
           /\ interior = <<>> => parts = <<>>
           /\ Len(parts) = 3 =>
                /\ parts[3] # <<>>
                /\ \E p \in 1..Len(interior) :
                      /\ parts[3] = Trim(SubSeq(interior, p, Len(interior)))
                      /\ commas(p) >= 2
           /\ block = NestedExampleBlock =>
                parts = <<<<"k">>, <<"t", "y", "p", "e">>, NestedExampleFormat>>

\* C8 witness: a format that holds a nested block and commas was returned
NestedFormatReached ==
    /\ pc = "done" /\ op = "splitFormattedArgument"
    /\ Len(parts) = 3
    /\ IndexOf(parts[3], <<"{">>) # -1
    /\ IndexOf(parts[3], <<",">>) # -1

\* C9: at an index holding {, findClosingBracket returns the smallest later
\* index that holds } with the braces in between balanced, and -1 exactly
\* when there is none.
ClosingBracketIsFirstBalanced ==
    (pc = "done" /\ op = "findClosingBracket"
        /\ CharAt(string, fromIndex) = "{")
    => IF MatchingCloses(string, fromIndex) = {}
       THEN closing = -1
       ELSE closing = Min(MatchingCloses(string, fromIndex))

\* C9 witness: the match was found past a nested pair of braces
NestedClosingReached ==
    /\ pc = "done" /\ op = "findClosingBracket"
    /\ CharAt(string, fromIndex) = "{"
    /\ closing > fromIndex + 2
    /\ \E i \in (fromIndex + 1)..(closing - 1) : CharAt(string, i) = "}"

\* C10: when the handler of the first block returns recurse(format, ...),
\* the block's node holds the nodes of the sub-message processed with the
\* formatter's own handlers, and flattening puts the sub-message's leaves
\* between those of the text before and after the block.
RecursingHandlerNests ==
    (pc = "done" /\ op = "process" /\ message.t = "string" /\ ~outcome.thrown
        /\ IndexOf(message.v, <<"{">>) # -1)
    => LET m == message.v
           o == IndexOf(m, <<"{">>)
           e == Min(MatchingCloses(m, o))
           b == SubSeq(m, o + 1, e + 1)
           type == Element(splitFormattedArgument(b), 1)
           fmt == Element(splitFormattedArgument(b), 2)
           head == SubSeq(m, 1, o)
           tail == SubSeq(m, e + 2, Len(m))
           vals == DefaultValues(values)
           sub == process(fmt, vals, locale, typeHandlers)
           after == process(JSString(tail), vals, locale, typeHandlers)
           at == IF head = <<>> THEN 1 ELSE 2
       IN  (TypeRegistered(type) /\ typeHandlers[type.v] = "recurse")
           => /\ outcome.nodes[at].value = JSArray(sub.nodes)
              /\ extractValues(outcome.nodes)
                   = (IF head = <<>> THEN <<>> ELSE <<JSString(head)>>)
                     \o extractValues(sub.nodes)
                     \o extractValues(after.nodes)

\* C10 witness: a recursing block between two texts, whose sub-message
\* holds a typed placeholder that reached its handler
NestedDispatchReached ==
    /\ pc = "done" /\ op = "process" /\ ~outcome.thrown
    /\ Len(outcome.nodes) >= 3
    /\ ~IsPlaceholderNode(outcome.nodes[1])
    /\ IsPlaceholderNode(outcome.nodes[2])
    /\ outcome.nodes[2].value.t = "array"
    /\ Len(outcome.calls) >= 2
    /\ outcome.calls[1].handler = "recurse"
    /\ outcome.calls[2].handler = "scalar"

=============================================================================
